---------------------------- MODULE Spec2Model ----------------------------
(***************************************************************************)
(* Unscented Kalman filter of src/src/ukf.cpp (class UKF).                 *)
(*                                                                         *)
(* Numbers.  The filter computes in C++ double.  A double is modelled as a *)
(* decimal fixed-point number: the integer n stands for n / Scale.  Every  *)
(* product and quotient is rounded to the nearest representable value, as  *)
(* a double operation is; the library functions sqrt, sin, cos, atan2      *)
(* return the rounded value of the mathematical function.  The sigma-point *)
(* weights, which are quotients of small integers, are kept to twice as    *)
(* many digits (the unit 1 / WScale).  A double that is NaN or infinite is *)
(* the value NaN: once a division by zero has produced one, every          *)
(* coefficient computed from it is NaN too.                                *)
(*                                                                         *)
(* An operator evaluates each of its operands once: The({e(v) : v \in {a}})*)
(* is e at the value of a.                                                 *)
(***************************************************************************)
EXTENDS Integers, Sequences, FiniteSets, TLC

----------------------------------------------------------------------------
(* double arithmetic *)

\* one unit of a double: the integer n stands for the double n / Scale
Scale == 10 * 10 * 10 * 10

\* one unit of a weight: the integer n stands for the double n / WScale
WScale == Scale * Scale

\* a double that is NaN or +/-Inf
NaN == "NaN"

\* the element of a one-element set
The(S) == CHOOSE v \in S : TRUE

\* Eigen stores the coefficients of a VectorXd / MatrixXd: evaluate them once
Dense(f) == f \o << >>

Fabs(a) == IF a < 0 THEN -a ELSE a

\* the literal 0.5
Half == Scale \div 2

\* a double narrowed to float: rounded to 24 significant bits
RECURSIVE FloatRound(_, _)
FloatRound(a, ulp) ==
    IF a \div ulp < 16777216 THEN ((a + ulp \div 2) \div ulp) * ulp
    ELSE FloatRound(a, 2 * ulp)

ToFloat(a) ==
    The({ IF v < 0 THEN -FloatRound(-v, 1) ELSE FloatRound(v, 1) : v \in {a} })

\* a * b on doubles, rounded to nearest
Mul(a, b) ==
    The({ (x \div Scale) * y + (x % Scale) * (y \div Scale)
            + ((x % Scale) * (y % Scale) + Scale \div 2) \div Scale :
          x \in {a}, y \in {b} })

\* a / b on doubles (b # 0), rounded to nearest
DivPos(a, b) ==
    IF b > 20000000 THEN a \div (b \div Scale) ELSE
    LET q0 == a \div b
        r0 == a % b
        q1 == (r0 * 100) \div b
        r1 == (r0 * 100) % b
        q2 == (r1 * 100) \div b
        r2 == (r1 * 100) % b
    IN  q0 * Scale + q1 * 100 + q2 + (IF 2 * r2 >= b THEN 1 ELSE 0)

Div(a, b) ==
    The({ IF y > 0 THEN DivPos(x, y) ELSE DivPos(-x, -y) : x \in {a}, y \in {b} })

\* sqrt(a) for a >= 0: Newton's iteration from above
RECURSIVE SqrtIter(_, _)
SqrtIter(a, y) ==
    The({ IF y2 >= y THEN y ELSE SqrtIter(a, y2) : y2 \in {(y + Div(a, y)) \div 2} })

Sqrt(a) ==
    The({ IF v <= 0 THEN 0
          ELSE IF v < 100 THEN SqrtIter(v, 1000)
          ELSE IF v < 10000 THEN SqrtIter(v, 10000)
          ELSE IF v < 1000000 THEN SqrtIter(v, 100000)
          ELSE IF v < 100000000 THEN SqrtIter(v, 1000000)
          ELSE SqrtIter(v, 5000000) : v \in {a} })

\* sqrt(a * a + b * b); the squares of small a, b are kept exactly, so that
\* the result is 0 only for a = b = 0
RECURSIVE ISqrtIter(_, _)
ISqrtIter(n, y) ==
    The({ IF y2 >= y THEN y ELSE ISqrtIter(n, y2) : y2 \in {(y + n \div y) \div 2} })

ISqrt(n) ==
    The({ IF v <= 0 THEN 0
          ELSE IF v < 10000 THEN ISqrtIter(v, 100)
          ELSE IF v < 1000000 THEN ISqrtIter(v, 1000)
          ELSE IF v < 100000000 THEN ISqrtIter(v, 10000)
          ELSE ISqrtIter(v, 46341) : v \in {n} })

SqrtSumSq(a, b) ==
    The({ IF Fabs(x) < 30000 /\ Fabs(y) < 30000
          THEN ISqrt(x * x + y * y)
          ELSE Sqrt(Mul(x, x) + Mul(y, y)) : x \in {a}, y \in {b} })

\* M_PI of <cmath>
M_PI == 31416

\* sin and cos: the argument reduced to [-pi, pi), then the Taylor series
Reduce(a) == The({ ((v + M_PI) % (2 * M_PI)) - M_PI : v \in {a} })

CosSeries(r) ==
    The({ The({ The({ The({ The({ Scale - t2 + t4 - t6 + t8 - Mul(t8, x2) \div 90 :
            t8 \in {Mul(t6, x2) \div 56} }) :
            t6 \in {Mul(t4, x2) \div 30} }) :
            t4 \in {Mul(t2, x2) \div 12} }) :
            t2 \in {x2 \div 2} }) :
            x2 \in {Mul(r, r)} })

SinSeries(r) ==
    The({ The({ The({ The({ The({ r - t3 + t5 - t7 + t9 - Mul(t9, x2) \div 110 :
            t9 \in {Mul(t7, x2) \div 72} }) :
            t7 \in {Mul(t5, x2) \div 42} }) :
            t5 \in {Mul(t3, x2) \div 20} }) :
            t3 \in {Mul(r, x2) \div 6} }) :
            x2 \in {Mul(r, r)} })

Cos(a) ==
    The({ IF 2 * r > M_PI THEN -CosSeries(M_PI - r) ELSE CosSeries(r) :
          r \in {Fabs(Reduce(a))} })

Sin(a) ==
    The({ IF r < 0
          THEN -(IF -2 * r > M_PI THEN SinSeries(M_PI + r) ELSE SinSeries(-r))
          ELSE (IF 2 * r > M_PI THEN SinSeries(M_PI - r) ELSE SinSeries(r)) :
          r \in {Reduce(a)} })

\* atan on [0, 1]: atan t = pi/4 - atan((1-t)/(1+t)), then the Taylor series
AtanSeries(u) ==
    The({ The({ The({ The({ The({
            u - p3 \div 3 + p5 \div 5 - p7 \div 7 + p9 \div 9 - Mul(p9, x2) \div 11 :
            p9 \in {Mul(p7, x2)} }) :
            p7 \in {Mul(p5, x2)} }) :
            p5 \in {Mul(p3, x2)} }) :
            p3 \in {Mul(u, x2)} }) :
            x2 \in {Mul(u, u)} })

Atan01(t) ==
    The({ IF v > 4142
          THEN M_PI \div 4 - AtanSeries(Div(Scale - v, Scale + v))
          ELSE AtanSeries(v) : v \in {t} })

\* atan2(y, x) of <cmath>; atan2(0, 0) = 0
Atan2(y, x) ==
    The({ The({ The({ IF vy < 0 THEN -half ELSE half :
            half \in {IF vx >= 0 THEN base ELSE M_PI - base} }) :
            base \in {IF vx = 0 /\ vy = 0 THEN 0
                      ELSE IF Fabs(vy) <= Fabs(vx) THEN Atan01(Div(Fabs(vy), Fabs(vx)))
                      ELSE M_PI \div 2 - Atan01(Div(Fabs(vx), Fabs(vy)))} }) :
            vy \in {y}, vx \in {x} })

\* the sum of a vector of doubles
RECURSIVE SumTo(_, _)
SumTo(s, n) == IF n = 0 THEN 0 ELSE SumTo(s, n - 1) + s[n]

Sum(s) == The({ SumTo(v, Len(v)) : v \in {s} })

\* the dot product of the first n coefficients of two vectors
RECURSIVE DotTo(_, _, _)
DotTo(a, b, n) == IF n = 0 THEN 0 ELSE DotTo(a, b, n - 1) + Mul(a[n], b[n])

Dot(a, b, n) == The({ DotTo(u, v, n) : u \in {a}, v \in {b} })

\* matrices are sequences of rows; A * B, the transpose, A + B, A - B
Rows(A) == Len(A)
Cols(A) == Len(A[1])
Transpose(A) ==
    The({ Dense([j \in 1..Cols(X) |-> Dense([i \in 1..Rows(X) |-> X[i][j]])]) :
          X \in {A} })
MatMul(A, B) ==
    The({ Dense([i \in 1..Rows(X) |->
              Dense([j \in 1..Rows(Yt) |-> Dot(X[i], Yt[j], Cols(X))])]) :
          X \in {A}, Yt \in {Transpose(B)} })
MatVec(A, v) ==
    The({ Dense([i \in 1..Rows(X) |-> Dot(X[i], u, Len(u))]) : X \in {A}, u \in {v} })
MatAdd(A, B) ==
    The({ Dense([i \in 1..Rows(X) |-> Dense([j \in 1..Cols(X) |-> X[i][j] + Y[i][j]])]) :
          X \in {A}, Y \in {B} })
MatSub(A, B) ==
    The({ Dense([i \in 1..Rows(X) |-> Dense([j \in 1..Cols(X) |-> X[i][j] - Y[i][j]])]) :
          X \in {A}, Y \in {B} })
VecAdd(a, b) == The({ Dense([i \in 1..Len(u) |-> u[i] + v[i]]) : u \in {a}, v \in {b} })
VecSub(a, b) == The({ Dense([i \in 1..Len(u) |-> u[i] - v[i]]) : u \in {a}, v \in {b} })
Identity(n) ==
    Dense([i \in 1..n |-> Dense([j \in 1..n |-> IF i = j THEN Scale ELSE 0])])
Fill(n, m, v) == Dense([i \in 1..n |-> Dense([j \in 1..m |-> v])])

\* P_aug.llt().matrixL(): Eigen's in-place Cholesky factorization.  Column k
\* is factored when its pivot x is positive; at the first pivot x <= 0 the
\* factorization stops and leaves the remaining columns as they were.
LltColumn(M, k, d) ==
    Dense([i \in 1..Rows(M) |->
        IF i < k THEN M[i]
        ELSE Dense([j \in 1..Rows(M) |->
               IF j # k THEN M[i][j]
               ELSE IF i = k THEN d
               ELSE Div(M[i][k] - Dot(M[i], M[k], k - 1), d)])])

RECURSIVE LltFrom(_, _)
LltFrom(M, k) ==
    The({ IF x <= 0 THEN M
          ELSE The({ IF k = Rows(M) THEN M2 ELSE LltFrom(M2, k + 1) :
                     M2 \in {LltColumn(M, k, Sqrt(x))} }) :
          x \in {M[k][k] - Dot(M[k], M[k], k - 1)} })

Llt(A) ==
    The({ Dense([i \in 1..Rows(M) |->
              Dense([j \in 1..Rows(M) |-> IF j <= i THEN M[i][j] ELSE 0])]) :
          M \in {The({ LltFrom(X, 1) : X \in {A} })} })

\* S.inverse(): Gauss-Jordan elimination of [S | I] with partial pivoting;
\* the empty matrix stands for the NaN coefficients of the inverse of a
\* singular S (the division by a zero determinant)
PivotRow(M, k) ==
    CHOOSE p \in k..Rows(M) : \A q \in k..Rows(M) : Fabs(M[p][k]) >= Fabs(M[q][k])

SwapRows(M, k, p) ==
    Dense([i \in 1..Rows(M) |-> IF i = k THEN M[p] ELSE IF i = p THEN M[k] ELSE M[i]])

EliminateColumn(Sw, k, rowk) ==
    Dense([i \in 1..Rows(Sw) |->
        IF i = k THEN rowk
        ELSE Dense([j \in 1..Cols(Sw) |-> Sw[i][j] - Mul(Sw[i][k], rowk[j])])])

RECURSIVE Eliminate(_, _)
Eliminate(M, k) ==
    The({ IF Sw[k][k] = 0 THEN << >>
          ELSE The({ IF k = Rows(M) THEN M2 ELSE Eliminate(M2, k + 1) :
                     M2 \in {The({ EliminateColumn(Sw, k, rowk) :
                                   rowk \in {Dense([j \in 1..Cols(Sw) |->
                                                Div(Sw[k][j], Sw[k][k])])} })} }) :
          Sw \in {SwapRows(M, k, PivotRow(M, k))} })

\* the matrix [S | I]
Augmented(S) ==
    Dense([i \in 1..Rows(S) |->
        Dense([j \in 1..(2 * Rows(S)) |->
            IF j <= Rows(S) THEN S[i][j] ELSE IF j - Rows(S) = i THEN Scale ELSE 0])])

Inverse(S) ==
    The({ IF R = << >> THEN << >>
          ELSE Dense([i \in 1..Rows(R) |->
                   Dense([j \in 1..Rows(R) |-> R[i][Rows(R) + j]])]) :
          R \in {The({ Eliminate(SI, 1) :
                       SI \in {The({ Augmented(X) : X \in {S} })} })} })

Singular(Si) == Si = << >>

\* the result of an update: the new x_pred_ and P_pred_, or NaN coefficients
Finite(x, P) == [nan |-> FALSE, x |-> x, P |-> P]
NotFinite == [nan |-> TRUE]

----------------------------------------------------------------------------
(* UKF::UKF: the constants the constructor sets *)

n_x_ == 5
n_aug_ == 7
lambda_ == 3 - n_aug_
std_a_ == 38000
std_yawdd_ == 3000
std_radr_ == 3000
std_radphi_ == 300
std_radrd_ == 3000

\* the number of sigma points, 2 * n_aug_ + 1
n_sig == 2 * n_aug_ + 1

\* the laser measurement variance 0.0225 of UpdateLidar's R_
R_laser == 225

\* the yaw-rate threshold 0.001 of PredictSigmaPoints
YawdEps == 10

----------------------------------------------------------------------------
(* UKF::GenerateSigmaPoints.  A sigma-point matrix is the sequence of its  *)
(* columns.                                                                *)

AugmentedMean(x) == x \o <<0, 0>>

AugmentedCovariance(P) ==
    Dense([i \in 1..n_aug_ |->
        Dense([j \in 1..n_aug_ |->
            IF i <= n_x_ /\ j <= n_x_ THEN P[i][j]
            ELSE IF i = 6 /\ j = 6 THEN Mul(std_a_, std_a_)
            ELSE IF i = 7 /\ j = 7 THEN Mul(std_yawdd_, std_yawdd_)
            ELSE 0])])

\* the columns x_aug, x_aug + sqrt(lambda_ + n_aug_) * L.col(i),
\* x_aug - sqrt(lambda_ + n_aug_) * L.col(i)
SigmaColumns(xa, L, c) ==
    Dense([k \in 1..n_sig |->
        IF k = 1 THEN xa
        ELSE IF k <= n_aug_ + 1
        THEN Dense([r \in 1..n_aug_ |-> xa[r] + Mul(c, L[r][k - 1])])
        ELSE Dense([r \in 1..n_aug_ |-> xa[r] - Mul(c, L[r][k - 1 - n_aug_])])])

GenerateSigmaPoints(x, P) ==
    The({ The({ [x_aug |-> xa, P_aug |-> Pa, Xsig_aug |-> Xs] :
            Xs \in {The({ SigmaColumns(xa, L, c) : L \in {Llt(Pa)} })} }) :
            xa \in {AugmentedMean(x)},
            Pa \in {The({ AugmentedCovariance(Q) : Q \in {P} })},
            c \in {Sqrt((lambda_ + n_aug_) * Scale)} })

----------------------------------------------------------------------------
(* UKF::PredictSigmaPoints: the CTRV process model on one sigma point *)

\* the guard of the division by the yaw rate
DividesByYawd(yawd) == Fabs(yawd) > YawdEps

\* px_p and py_p before the noise is added
px_p(p_x, v, yaw, yawd, delta_t) ==
    IF DividesByYawd(yawd)
    THEN p_x + Mul(Div(v, yawd), Sin(yaw + Mul(yawd, delta_t)) - Sin(yaw))
    ELSE p_x + Mul(Mul(v, delta_t), Cos(yaw))

py_p(p_y, v, yaw, yawd, delta_t) ==
    IF DividesByYawd(yawd)
    THEN p_y + Mul(Div(v, yawd), Cos(yaw) - Cos(yaw + Mul(yawd, delta_t)))
    ELSE p_y + Mul(Mul(v, delta_t), Sin(yaw))

\* PredictSigmaPoint with the yaw advanced by yawd, not by yawd * delta_t
PredictSigmaPointNoDt(col, delta_t) ==
    LET p_x == col[1]
        p_y == col[2]
        v == col[3]
        yaw == col[4]
        yawd == col[5]
        nu_a == col[6]
        nu_yawdd == col[7]
    IN  << px_p(p_x, v, yaw, yawd, delta_t)
               + Mul(Mul(Mul(Mul(Half, nu_a), delta_t), delta_t), Cos(yaw)),
           py_p(p_y, v, yaw, yawd, delta_t)
               + Mul(Mul(Mul(Mul(Half, nu_a), delta_t), delta_t), Sin(yaw)),
           v + Mul(nu_a, delta_t),
           yaw + yawd + Mul(Mul(Mul(Half, nu_yawdd), delta_t), delta_t),
           yawd + Mul(nu_yawdd, delta_t) >>

PredictSigmaPoint(col, delta_t) ==
    LET p_x == col[1]
        p_y == col[2]
        v == col[3]
        yaw == col[4]
        yawd == col[5]
        nu_a == col[6]
        nu_yawdd == col[7]
    IN  << px_p(p_x, v, yaw, yawd, delta_t)
               + Mul(Mul(Mul(Mul(Half, nu_a), delta_t), delta_t), Cos(yaw)),
           py_p(p_y, v, yaw, yawd, delta_t)
               + Mul(Mul(Mul(Mul(Half, nu_a), delta_t), delta_t), Sin(yaw)),
           v + Mul(nu_a, delta_t),
           yaw + Mul(yawd, delta_t) + Mul(Mul(Mul(Half, nu_yawdd), delta_t), delta_t),
           yawd + Mul(nu_yawdd, delta_t) >>

PredictSigmaPoints(Xs, delta_t) ==
    The({ Dense([k \in 1..n_sig |-> The({ PredictSigmaPoint(col, dt) : col \in {X[k]} })]) :
          X \in {Xs}, dt \in {delta_t} })

----------------------------------------------------------------------------
(* UKF::PredictMeanAndCovariance *)

\* NormalizeAngle with an if in place of each while
NormalizeAngleOnce(a) ==
    The({ IF v > M_PI THEN v - 2 * M_PI
          ELSE IF v < -M_PI THEN v + 2 * M_PI
          ELSE v : v \in {a} })

\* angle normalization: the two while loops
RECURSIVE NormalizeAngle(_)
NormalizeAngle(a) ==
    The({ IF v > M_PI THEN NormalizeAngle(v - 2 * M_PI)
          ELSE IF v < -M_PI THEN NormalizeAngle(v + 2 * M_PI)
          ELSE v : v \in {a} })

\* the quotient a / b (b > 0) of two integers as a weight, rounded to nearest
WeightOf(a, b) == (2 * a * WScale + b) \div (2 * b)

\* Weights without the factor 0.5
WeightsNoHalf ==
    Dense([k \in 1..n_sig |->
        IF k = 1 THEN WeightOf(lambda_, lambda_ + n_aug_)
        ELSE WeightOf(1, n_aug_ + lambda_)])

\* weights_(0) = lambda_ / (lambda_ + n_aug_), weights_(i) = 0.5 / (n_aug_ + lambda_)
Weights ==
    Dense([k \in 1..n_sig |->
        IF k = 1 THEN WeightOf(lambda_, lambda_ + n_aug_)
        ELSE WeightOf(1, 2 * (n_aug_ + lambda_))])

\* sum over k of w[k] * t[k]: the products accumulated to the digits of
\* the weights, the sum rounded to a double
WeightedSumOf(w, t) ==
    LET hi == Sum(Dense([k \in 1..Len(w) |-> (w[k] \div Scale) * (t[k] \div Scale)]))
        mid == Sum(Dense([k \in 1..Len(w) |->
                   (w[k] \div Scale) * (t[k] % Scale) + (w[k] % Scale) * (t[k] \div Scale)]))
        lo == Sum(Dense([k \in 1..Len(w) |-> (w[k] % Scale) * (t[k] % Scale)]))
    IN  hi + (mid + (lo + Half) \div Scale + Half) \div Scale

WeightedSum(w, t) == The({ WeightedSumOf(u, v) : u \in {w}, v \in {t} })

\* row r of every column of a sigma-point matrix
Row(Xs, r) == Dense([k \in 1..Len(Xs) |-> Xs[k][r]])

\* x_diff of column k, its heading component normalized
StateDiff(Xs, x, k) ==
    Dense([r \in 1..n_x_ |->
        IF r = 4 THEN NormalizeAngle(Xs[k][4] - x[4]) ELSE Xs[k][r] - x[r]])

\* sum over k of w[k] * a[k] * b[k].transpose()
WeightedOuter(w, a, b, n, m) ==
    Dense([i \in 1..n |->
        Dense([j \in 1..m |->
            WeightedSum(w, Dense([k \in 1..n_sig |-> Mul(a[k][i], b[k][j])]))])])

PredictMeanAndCovariance(Xsig) ==
    The({ The({ The({ [weights |-> w, x |-> x, P |-> WeightedOuter(w, d, d, n_x_, n_x_)] :
            d \in {Dense([k \in 1..n_sig |-> StateDiff(Xs, x, k)])} }) :
            x \in {Dense([r \in 1..n_x_ |-> WeightedSum(w, Row(Xs, r))])} }) :
            w \in {Weights}, Xs \in {Xsig} })

\* UKF::Prediction
Prediction(x, P, delta_t) ==
    The({ The({ The({ [x_aug |-> g.x_aug, P_aug |-> g.P_aug, Xsig_aug |-> g.Xsig_aug,
                       Xsig_pred |-> xs, weights |-> pm.weights, x |-> pm.x, P |-> pm.P] :
            pm \in {PredictMeanAndCovariance(xs)} }) :
            xs \in {PredictSigmaPoints(g.Xsig_aug, delta_t)} }) :
            g \in {GenerateSigmaPoints(x, P)} })

----------------------------------------------------------------------------
(* UKF::UpdateLidar *)

H_ == << <<Scale, 0, 0, 0, 0>>, <<0, Scale, 0, 0, 0>> >>
R_ == << <<R_laser, 0>>, <<0, R_laser>> >>

\* x_pred_ + K * y and (I - K * H_) * P_pred_
LidarResult(x, P, z, Si) ==
    The({ Finite(VecAdd(x, MatVec(K, VecSub(z, MatVec(H_, x)))),
                 MatMul(MatSub(Identity(Len(x)), MatMul(K, H_)), P)) :
          K \in {MatMul(MatMul(P, Transpose(H_)), Si)} })

\* the new x_pred_ and P_pred_; NaN when S is singular
UpdateLidar(x_in, P_in, z_in) ==
    The({ The({ IF Singular(Si) THEN NotFinite ELSE LidarResult(x, P, z, Si) :
            Si \in {Inverse(MatAdd(MatMul(MatMul(H_, P), Transpose(H_)), R_))} }) :
            x \in {x_in}, P \in {P_in}, z \in {z_in} })

----------------------------------------------------------------------------
(* UKF::UpdateRadar *)

n_z_ == 3

\* the divisor sqrt(p_x * p_x + p_y * p_y) of the range rate
Range(col) == SqrtSumSq(col[1], col[2])

\* the sigma points whose range-rate division has a zero divisor
ZeroRangePoints(Xs) ==
    The({ {k \in 1..Len(X) : Range(X[k]) = 0} : X \in {Xs} })

\* a sigma point in measurement space (its range is not 0)
MeasurementPoint(col) ==
    LET p_x == col[1]
        p_y == col[2]
        v == col[3]
        yaw == col[4]
    IN  The({ << rho, Atan2(p_y, p_x),
                 Div(Mul(p_x, Mul(Cos(yaw), v)) + Mul(p_y, Mul(Sin(yaw), v)), rho) >> :
              rho \in {Range(col)} })

\* z_diff, its bearing component normalized
MeasDiff(zc, z_pred) ==
    << zc[1] - z_pred[1], NormalizeAngle(zc[2] - z_pred[2]), zc[3] - z_pred[3] >>

R_radar ==
    << <<Mul(std_radr_, std_radr_), 0, 0>>,
       <<0, Mul(std_radphi_, std_radphi_), 0>>,
       <<0, 0, Mul(std_radrd_, std_radrd_)>> >>

\* x_pred_ + K * z_diff and P_pred_ - K * S * K.transpose()
RadarResult(x, P, z_diff, S, Si, Tc) ==
    The({ Finite(VecAdd(x, MatVec(K, z_diff)),
                 MatSub(P, MatMul(MatMul(K, S), Transpose(K)))) :
          K \in {MatMul(Tc, Si)} })

\* the update from the sigma points Zsig in measurement space
RadarGain(x, P, Xs, w, z, Zsig) ==
    The({ The({ The({ The({
            IF Singular(Si) THEN NotFinite
            ELSE RadarResult(x, P, MeasDiff(z, z_pred), S, Si,
                             WeightedOuter(w, xd, zd, n_x_, n_z_)) :
            Si \in {Inverse(S)} }) :
            S \in {MatAdd(WeightedOuter(w, zd, zd, n_z_, n_z_), R_radar)} }) :
            zd \in {Dense([k \in 1..n_sig |-> MeasDiff(Zsig[k], z_pred)])},
            xd \in {Dense([k \in 1..n_sig |-> StateDiff(Xs, x, k)])} }) :
            z_pred \in {Dense([r \in 1..n_z_ |-> WeightedSum(w, Row(Zsig, r))])} })

\* UpdateRadar with a guard: no update when a range is zero
UpdateRadarGuarded(x_in, P_in, Xsig, weights, z_in) ==
    The({ IF ZeroRangePoints(Xs) # {} THEN Finite(x, P)
          ELSE The({ RadarGain(x, P, Xs, w, z, Zsig) :
                     Zsig \in {Dense([k \in 1..n_sig |->
                                 The({ MeasurementPoint(col) : col \in {Xs[k]} })])} }) :
          x \in {x_in}, P \in {P_in}, Xs \in {Xsig}, w \in {weights}, z \in {z_in} })

\* the new x_pred_ and P_pred_; NaN when a range-rate division has a zero
\* divisor (0/0) or S is singular
UpdateRadar(x_in, P_in, Xsig, weights, z_in) ==
    The({ IF ZeroRangePoints(Xs) # {} THEN NotFinite
          ELSE The({ RadarGain(x, P, Xs, w, z, Zsig) :
                     Zsig \in {Dense([k \in 1..n_sig |->
                                 The({ MeasurementPoint(col) : col \in {Xs[k]} })])} }) :
          x \in {x_in}, P \in {P_in}, Xs \in {Xsig}, w \in {weights}, z \in {z_in} })

----------------------------------------------------------------------------
(* The filter object and its caller *)

VARIABLES
    use_laser_,            \* the fields of class UKF
    use_radar_,
    is_initialized_,
    x_pred_,
    P_pred_,
    previous_timestamp_,
    Xsig_pred_,
    weights_,
    Xsig_aug,
    x_aug,
    P_aug,
    is_nan,                \* x_pred_ and P_pred_ hold NaN
    calls,                 \* the number of ProcessMeasurement calls so far
    meas,                  \* the meas_package of the last call
    steps,                 \* the member functions the last call ran, in order
    delta_t,               \* the delta_t the last call computed
    prev_timestamp,        \* previous_timestamp_, x_pred_, P_pred_ as the
    x_prior,               \*   last call found them
    P_prior,
    assigned,              \* the fields whose coefficients have been written
    uninit_reads,          \* the fields read before they were written
    zero_range,            \* the sigma points the last UpdateRadar divided by a zero range for
    yawd_divisors,         \* the yaw rates the last PredictSigmaPoints divided by
    theta,                 \* an angle, and the results of normalizing it
    wrapped,               \*   once and twice
    rewrapped,
    stage                  \* what the caller exercises, and how far it is

vars == << use_laser_, use_radar_, is_initialized_, x_pred_, P_pred_,
           previous_timestamp_, Xsig_pred_, weights_, Xsig_aug, x_aug, P_aug,
           is_nan, calls, meas, steps, delta_t, prev_timestamp, x_prior,
           P_prior, assigned, uninit_reads, zero_range, yawd_divisors,
           theta, wrapped, rewrapped, stage >>

angle_vars == << theta, wrapped, rewrapped >>

\* the most ProcessMeasurement calls of a run
MaxCalls == 3

LASER == "LASER"
RADAR == "RADAR"

Package(kind, raw, ts) ==
    [sensor_type_ |-> kind, raw_measurements_ |-> raw, timestamp_ |-> ts]

\* the measurement stream: laser (x, y), radar (rho, phi, rho_dot), with the
\* timestamp in microseconds; the caller may repeat and reorder them
Measurements ==
    { Package(LASER, <<0, 0>>, 0),
      Package(LASER, <<10000, 5000>>, 100000),
      Package(LASER, <<50000, 5000>>, 200000),
      Package(RADAR, <<0, 0, 0>>, 0),
      Package(RADAR, <<14142, 7854, 20000>>, 100000),
      Package(RADAR, <<50000, 1000, -10000>>, 200000) }

\* MatrixXd(n, m) and VectorXd(n) allocate without writing the coefficients.
\* What P_pred_ then holds is whatever the memory held: all zeros, or any
\* other bit pattern, here a covariance with correlated position and heading.
ZeroMatrix == Fill(n_x_, n_x_, 0)
OtherMatrix ==
    << <<10000, 0, 0, 15000, 0>>,
       <<0, 10000, 0, 0, 0>>,
       <<0, 0, 10000, 0, 0>>,
       <<15000, 0, 0, 40000, 0>>,
       <<0, 0, 0, 0, 10000>> >>
Uninitialized == {ZeroMatrix, OtherMatrix}

\* the fields the constructor allocates and does not write; the scalar
\* previous_timestamp_ is not written either
Fields ==
    {"x_pred_", "P_pred_", "previous_timestamp_", "Xsig_pred_", "weights_",
     "Xsig_aug", "x_aug", "P_aug"}

\* UKF::UKF
Constructor ==
    /\ use_laser_ = TRUE
    /\ use_radar_ = TRUE
    /\ is_initialized_ = FALSE
    /\ x_pred_ = Dense([i \in 1..n_x_ |-> 0])
    /\ P_pred_ \in Uninitialized
    /\ previous_timestamp_ = 0
    /\ Xsig_pred_ = Fill(n_sig, n_x_, 0)
    /\ weights_ = Dense([k \in 1..n_sig |-> 0])
    /\ Xsig_aug = Fill(n_sig, n_aug_, 0)
    /\ x_aug = Dense([i \in 1..n_aug_ |-> 0])
    /\ P_aug = Fill(n_aug_, n_aug_, 0)
    /\ is_nan = FALSE
    /\ assigned = {}
    /\ uninit_reads = {}

\* the caller has made no call yet
NoCall ==
    /\ calls = 0
    /\ meas = Package(LASER, <<0, 0>>, 0)
    /\ steps = << >>
    /\ delta_t = 0
    /\ prev_timestamp = 0
    /\ x_prior = x_pred_
    /\ P_prior = P_pred_
    /\ zero_range = {}
    /\ yawd_divisors = {}
    /\ theta = 0
    /\ wrapped = 0
    /\ rewrapped = 0

Init ==
    /\ Constructor
    /\ NoCall
    /\ stage = "filter"

----------------------------------------------------------------------------
(* The reads and writes of the fields, in program order *)

Rd(f) == <<"r", f>>
Wr(f) == <<"w", f>>

InitializeAccess == << Wr("x_pred_"), Wr("previous_timestamp_") >>
DeltaTAccess == << Rd("previous_timestamp_") >>
GenerateSigmaPointsAccess ==
    << Wr("x_aug"), Rd("x_pred_"), Wr("P_aug"), Rd("P_pred_"), Rd("P_aug"),
       Wr("Xsig_aug"), Rd("x_aug") >>
PredictSigmaPointsAccess == << Rd("Xsig_aug"), Wr("Xsig_pred_") >>
PredictMeanAndCovarianceAccess ==
    << Wr("weights_"), Rd("weights_"), Rd("Xsig_pred_"), Wr("x_pred_"), Wr("P_pred_") >>
UpdateLidarAccess ==
    << Rd("x_pred_"), Rd("P_pred_"), Wr("x_pred_"), Wr("P_pred_") >>
UpdateRadarAccess ==
    << Rd("Xsig_pred_"), Rd("weights_"), Rd("x_pred_"), Rd("P_pred_"),
       Wr("x_pred_"), Wr("P_pred_") >>
StoreTimestampAccess == << Wr("previous_timestamp_") >>

\* the fields written after the first n accesses of acc, from those in A
RECURSIVE AssignedAfter(_, _, _)
AssignedAfter(acc, A, n) ==
    IF n = 0 THEN A
    ELSE AssignedAfter(acc, A, n - 1) \cup
            (IF acc[n][1] = "w" THEN {acc[n][2]} ELSE {})

\* the fields one of the accesses of acc reads before any write to it
ReadsBeforeWrite(acc, A) ==
    { acc[n][2] : n \in { k \in 1..Len(acc) :
          acc[k][1] = "r" /\ acc[k][2] \notin AssignedAfter(acc, A, k - 1) } }

----------------------------------------------------------------------------
(* UKF::ProcessMeasurement *)

\* InitialState with the sine and the cosine exchanged
InitialStateSwapped(m) ==
    IF m.sensor_type_ = RADAR
    THEN The({ << ToFloat(Mul(rho, ToFloat(Sin(phi)))),
                  ToFloat(Mul(rho, ToFloat(Cos(phi)))), 0, 0, 0 >> :
               rho \in {ToFloat(m.raw_measurements_[1])},
               phi \in {ToFloat(m.raw_measurements_[2])} })
    ELSE <<m.raw_measurements_[1], m.raw_measurements_[2], 0, 0, 0>>

\* the state the first measurement seeds
InitialState(m) ==
    IF m.sensor_type_ = RADAR
    THEN The({ << ToFloat(Mul(rho, ToFloat(Cos(phi)))),
                  ToFloat(Mul(rho, ToFloat(Sin(phi)))), 0, 0, 0 >> :
               rho \in {ToFloat(m.raw_measurements_[1])},
               phi \in {ToFloat(m.raw_measurements_[2])} })
    ELSE <<m.raw_measurements_[1], m.raw_measurements_[2], 0, 0, 0>>

\* DeltaT with the two timestamps exchanged
DeltaTReversed(timestamp, previous) == (previous - timestamp) \div (1000000 \div Scale)

\* (meas_package.timestamp_ - previous_timestamp_) / 1000000.0
DeltaT(timestamp, previous) == (timestamp - previous) \div (1000000 \div Scale)

\* the update ProcessMeasurement dispatches to
UpdateOf(m) == IF m.sensor_type_ = RADAR THEN "UpdateRadar" ELSE "UpdateLidar"

\* the member functions Prediction runs, in order
PredictionSteps ==
    << "Prediction", "GenerateSigmaPoints", "PredictSigmaPoints",
       "PredictMeanAndCovariance" >>

\* the member functions a call on an initialized filter runs, in order
StepsOf(m) == PredictionSteps \o << UpdateOf(m) >>

AccessOf(m) ==
    DeltaTAccess \o GenerateSigmaPointsAccess \o PredictSigmaPointsAccess
    \o PredictMeanAndCovarianceAccess
    \o (IF m.sensor_type_ = RADAR THEN UpdateRadarAccess ELSE UpdateLidarAccess)
    \o StoreTimestampAccess

\* the yaw rates PredictSigmaPoints divides by
YawdDivisors(Xs) ==
    { Xs[k][5] : k \in { j \in 1..Len(Xs) : DividesByYawd(Xs[j][5]) } }

\* the coefficients computed from a state that is NaN: the noise entries
\* of x_aug and P_aug are finite, the factor L of P_aug is NaN on and below
\* its diagonal
NaNVector(n) == Dense([i \in 1..n |-> NaN])
NaNMatrix(n, m) == Fill(n, m, NaN)
NaNAugmentedMean == NaNVector(n_x_) \o <<0, 0>>
NaNAugmentedCovariance ==
    Dense([i \in 1..n_aug_ |->
        Dense([j \in 1..n_aug_ |->
            IF i <= n_x_ /\ j <= n_x_ THEN NaN
            ELSE AugmentedCovariance(ZeroMatrix)[i][j]])])
NaNSigmaColumns ==
    Dense([k \in 1..n_sig |->
        IF k = 1 THEN NaNAugmentedMean
        ELSE Dense([r \in 1..n_aug_ |->
               IF r >= (IF k <= n_aug_ + 1 THEN k - 1 ELSE k - 1 - n_aug_)
               THEN NaN ELSE NaNAugmentedMean[r]])])

\* the first call: lines 85-121
Initialize(m) ==
    /\ x_pred_' = InitialState(m)
    /\ previous_timestamp_' = m.timestamp_
    /\ is_initialized_' = TRUE
    /\ steps' = << >>
    /\ assigned' = AssignedAfter(InitializeAccess, assigned, Len(InitializeAccess))
    /\ uninit_reads' = uninit_reads \cup ReadsBeforeWrite(InitializeAccess, assigned)
    /\ zero_range' = {}
    /\ yawd_divisors' = {}
    /\ UNCHANGED << P_pred_, Xsig_pred_, weights_, Xsig_aug, x_aug, P_aug,
                    is_nan, delta_t >>

\* Prediction and the update on a state that is NaN
PredictAndUpdateNaN ==
    /\ x_aug' = NaNAugmentedMean
    /\ P_aug' = NaNAugmentedCovariance
    /\ Xsig_aug' = NaNSigmaColumns
    /\ Xsig_pred_' = NaNMatrix(n_sig, n_x_)
    /\ weights_' = Weights
    /\ zero_range' = {}
    /\ yawd_divisors' = {}
    /\ UNCHANGED << x_pred_, P_pred_, is_nan >>

\* Prediction and the update on a finite state
PredictAndUpdateFinite(m, dt) ==
    \E p \in {Prediction(x_pred_, P_pred_, dt)} :
    \E u \in {IF m.sensor_type_ = RADAR
              THEN UpdateRadar(p.x, p.P, p.Xsig_pred, p.weights, m.raw_measurements_)
              ELSE UpdateLidar(p.x, p.P, m.raw_measurements_)} :
        /\ x_aug' = p.x_aug
        /\ P_aug' = p.P_aug
        /\ Xsig_aug' = p.Xsig_aug
        /\ Xsig_pred_' = p.Xsig_pred
        /\ weights_' = p.weights
        /\ zero_range' = IF m.sensor_type_ = RADAR
                         THEN ZeroRangePoints(p.Xsig_pred) ELSE {}
        /\ yawd_divisors' = YawdDivisors(p.Xsig_aug)
        /\ is_nan' = u.nan
        /\ x_pred_' = IF u.nan THEN NaNVector(n_x_) ELSE u.x
        /\ P_pred_' = IF u.nan THEN NaNMatrix(n_x_, n_x_) ELSE u.P

\* PredictAndUpdate with a guard: a measurement older than the last one is
\* dropped
PredictAndUpdateInOrder(m) ==
    IF m.timestamp_ < previous_timestamp_
    THEN /\ steps' = << >>
         /\ UNCHANGED << is_initialized_, x_pred_, P_pred_, previous_timestamp_,
                Xsig_pred_, weights_, Xsig_aug, x_aug, P_aug, is_nan, delta_t,
                assigned, uninit_reads, zero_range, yawd_divisors >>
    ELSE /\ delta_t' = DeltaT(m.timestamp_, previous_timestamp_)
         /\ IF is_nan
            THEN PredictAndUpdateNaN
            ELSE PredictAndUpdateFinite(m, DeltaT(m.timestamp_, previous_timestamp_))
         /\ previous_timestamp_' = m.timestamp_
         /\ steps' = StepsOf(m)
         /\ assigned' = AssignedAfter(AccessOf(m), assigned, Len(AccessOf(m)))
         /\ uninit_reads' = uninit_reads \cup ReadsBeforeWrite(AccessOf(m), assigned)
         /\ UNCHANGED is_initialized_

\* a later call: lines 123-137
PredictAndUpdate(m) ==
    /\ delta_t' = DeltaT(m.timestamp_, previous_timestamp_)
    /\ IF is_nan
       THEN PredictAndUpdateNaN
       ELSE PredictAndUpdateFinite(m, DeltaT(m.timestamp_, previous_timestamp_))
    /\ previous_timestamp_' = m.timestamp_
    /\ steps' = StepsOf(m)
    /\ assigned' = AssignedAfter(AccessOf(m), assigned, Len(AccessOf(m)))
    /\ uninit_reads' = uninit_reads \cup ReadsBeforeWrite(AccessOf(m), assigned)
    /\ UNCHANGED is_initialized_

ProcessMeasurement(m) ==
    /\ stage = "filter"
    /\ calls < MaxCalls
    /\ calls' = calls + 1
    /\ meas' = m
    /\ prev_timestamp' = previous_timestamp_
    /\ x_prior' = x_pred_
    /\ P_prior' = P_pred_
    /\ IF ~is_initialized_ THEN Initialize(m) ELSE PredictAndUpdate(m)
    /\ UNCHANGED << use_laser_, use_radar_, stage >>
    /\ UNCHANGED angle_vars

\* the caller sets the public flags before it feeds the stream
SetUseLaser(b) ==
    /\ stage = "filter"
    /\ calls = 0
    /\ use_laser_ # b
    /\ use_laser_' = b
    /\ UNCHANGED << use_radar_, is_initialized_, x_pred_, P_pred_,
           previous_timestamp_, Xsig_pred_, weights_, Xsig_aug, x_aug, P_aug,
           is_nan, calls, meas, steps, delta_t, prev_timestamp, x_prior,
           P_prior, assigned, uninit_reads, zero_range, yawd_divisors, stage >>
    /\ UNCHANGED angle_vars

SetUseRadar(b) ==
    /\ stage = "filter"
    /\ calls = 0
    /\ use_radar_ # b
    /\ use_radar_' = b
    /\ UNCHANGED << use_laser_, is_initialized_, x_pred_, P_pred_,
           previous_timestamp_, Xsig_pred_, weights_, Xsig_aug, x_aug, P_aug,
           is_nan, calls, meas, steps, delta_t, prev_timestamp, x_prior,
           P_prior, assigned, uninit_reads, zero_range, yawd_divisors, stage >>
    /\ UNCHANGED angle_vars

Next ==
    \/ \E m \in Measurements : ProcessMeasurement(m)
    \/ \E b \in BOOLEAN : SetUseLaser(b)
    \/ \E b \in BOOLEAN : SetUseRadar(b)

Spec == Init /\ [][Next]_vars

----------------------------------------------------------------------------
(* The angle normalization on its own: the caller normalizes an angle, and *)
(* normalizes the result again                                             *)

\* the angles run over MaxEighths eighths of a turn either way
MaxEighths == 12

\* the multiples of pi / 4 and their neighbours
Angles ==
    { k * (M_PI \div 4) + d : k \in (-MaxEighths)..MaxEighths, d \in {-1, 0, 1} }

InitWrap ==
    /\ Constructor
    /\ NoCall
    /\ stage = "angle"

Normalize(a) ==
    /\ stage = "angle"
    /\ theta' = a
    /\ wrapped' = NormalizeAngle(a)
    /\ stage' = "normalized"
    /\ UNCHANGED << use_laser_, use_radar_, is_initialized_, x_pred_, P_pred_,
           previous_timestamp_, Xsig_pred_, weights_, Xsig_aug, x_aug, P_aug,
           is_nan, calls, meas, steps, delta_t, prev_timestamp, x_prior,
           P_prior, assigned, uninit_reads, zero_range, yawd_divisors, rewrapped >>

NormalizeAgain ==
    /\ stage = "normalized"
    /\ rewrapped' = NormalizeAngle(wrapped)
    /\ stage' = "renormalized"
    /\ UNCHANGED << use_laser_, use_radar_, is_initialized_, x_pred_, P_pred_,
           previous_timestamp_, Xsig_pred_, weights_, Xsig_aug, x_aug, P_aug,
           is_nan, calls, meas, steps, delta_t, prev_timestamp, x_prior,
           P_prior, assigned, uninit_reads, zero_range, yawd_divisors,
           theta, wrapped >>

NextWrap ==
    \/ \E a \in Angles : Normalize(a)
    \/ NormalizeAgain

SpecWrap == InitWrap /\ [][NextWrap]_vars

----------------------------------------------------------------------------
(* Prediction on its own: the caller runs Prediction(delta_t) on a state   *)
(* and a covariance that has a Cholesky factor                             *)

\* the states: at rest and moving, three headings, the yaw rate 0, below
\* and above the threshold 0.001
PredictionStates ==
    { <<10000, 5000, v, yaw, yawd>> :
        v \in {0, 50000}, yaw \in {0, 30000, -20000}, yawd \in {0, 5, 5000} }

\* the covariances: a narrow one, one with correlated position and heading,
\* one with a heading variance of 4
NarrowMatrix ==
    << <<5000, 0, 0, 0, 0>>,
       <<0, 5000, 1000, 0, 0>>,
       <<0, 1000, 10000, 0, 0>>,
       <<0, 0, 0, 900, 100>>,
       <<0, 0, 0, 100, 400>> >>
WideMatrix ==
    << <<10000, 0, 0, 0, 0>>,
       <<0, 10000, 0, 0, 0>>,
       <<0, 0, 10000, 0, 0>>,
       <<0, 0, 0, 40000, 0>>,
       <<0, 0, 0, 0, 10000>> >>
PredictionCovariances == {NarrowMatrix, OtherMatrix, WideMatrix}

\* the time steps: none, and a tenth of a second
TimeSteps == {0, 1000}

InitPrediction ==
    /\ use_laser_ = TRUE
    /\ use_radar_ = TRUE
    /\ is_initialized_ = TRUE
    /\ x_pred_ \in PredictionStates
    /\ P_pred_ \in PredictionCovariances
    /\ previous_timestamp_ = 0
    /\ Xsig_pred_ = Fill(n_sig, n_x_, 0)
    /\ weights_ = Dense([k \in 1..n_sig |-> 0])
    /\ Xsig_aug = Fill(n_sig, n_aug_, 0)
    /\ x_aug = Dense([i \in 1..n_aug_ |-> 0])
    /\ P_aug = Fill(n_aug_, n_aug_, 0)
    /\ is_nan = FALSE
    /\ assigned = {"x_pred_", "P_pred_", "previous_timestamp_"}
    /\ uninit_reads = {}
    /\ NoCall
    /\ stage = "predict"

\* UKF::Prediction(delta_t)
PredictionCall(dt) ==
    /\ stage = "predict"
    /\ stage' = "predicted"
    /\ delta_t' = dt
    /\ x_prior' = x_pred_
    /\ P_prior' = P_pred_
    /\ steps' = PredictionSteps
    /\ \E p \in {Prediction(x_pred_, P_pred_, dt)} :
        /\ x_aug' = p.x_aug
        /\ P_aug' = p.P_aug
        /\ Xsig_aug' = p.Xsig_aug
        /\ Xsig_pred_' = p.Xsig_pred
        /\ weights_' = p.weights
        /\ yawd_divisors' = YawdDivisors(p.Xsig_aug)
        /\ x_pred_' = p.x
        /\ P_pred_' = p.P
    /\ assigned' = assigned \cup {"x_aug", "P_aug", "Xsig_aug", "Xsig_pred_", "weights_"}
    /\ UNCHANGED << use_laser_, use_radar_, is_initialized_, previous_timestamp_,
           is_nan, calls, meas, prev_timestamp, uninit_reads, zero_range >>
    /\ UNCHANGED angle_vars

NextPrediction == \E dt \in TimeSteps : PredictionCall(dt)

SpecPrediction == InitPrediction /\ [][NextPrediction]_vars

----------------------------------------------------------------------------
(* Properties *)

\* the rounding error allowed when two doubles are compared
Tol == 50

Near(a, b) == Fabs(a - b) <= Tol
VecNear(a, b) == \A i \in 1..Len(a) : Near(a[i], b[i])
MatNear(A, B) == \A i \in 1..Len(A) : VecNear(A[i], B[i])

\* the last call was made on an initialized filter
LaterCall == stage = "filter" /\ calls >= 2

\* the member functions a later call is to run for a measurement of a kind
RadarSteps ==
    << "Prediction", "GenerateSigmaPoints", "PredictSigmaPoints",
       "PredictMeanAndCovariance", "UpdateRadar" >>
LidarSteps ==
    << "Prediction", "GenerateSigmaPoints", "PredictSigmaPoints",
       "PredictMeanAndCovariance", "UpdateLidar" >>

\* C1: the first ProcessMeasurement call seeds the position from the
\* measurement (lidar: the raw x and y; radar: the point at range rho and
\* bearing phi, x = rho * cos(phi), y = rho * sin(phi)), sets speed, heading
\* and heading rate to 0, stores the timestamp, marks the filter initialized
\* and runs neither Prediction nor an update: no other field is written.
FirstCallSeedsState ==
    (stage = "filter" /\ calls = 1) =>
        /\ is_initialized_
        /\ previous_timestamp_ = meas.timestamp_
        /\ x_pred_[3] = 0 /\ x_pred_[4] = 0 /\ x_pred_[5] = 0
        /\ meas.sensor_type_ = LASER =>
              /\ x_pred_[1] = meas.raw_measurements_[1]
              /\ x_pred_[2] = meas.raw_measurements_[2]
        /\ meas.sensor_type_ = RADAR =>
              /\ Near(x_pred_[1], Mul(meas.raw_measurements_[1], Cos(meas.raw_measurements_[2])))
              /\ Near(x_pred_[2], Mul(meas.raw_measurements_[1], Sin(meas.raw_measurements_[2])))
              /\ Near(SqrtSumSq(x_pred_[1], x_pred_[2]), meas.raw_measurements_[1])
              /\ meas.raw_measurements_[1] # 0 =>
                    Near(Atan2(x_pred_[2], x_pred_[1]), meas.raw_measurements_[2])
        /\ steps = << >>
        /\ assigned = {"x_pred_", "previous_timestamp_"}
        /\ P_pred_ = P_prior
        /\ Xsig_pred_ = Fill(n_sig, n_x_, 0)

\* a first call with a radar measurement off both axes
FirstCallRadarSeeded ==
    /\ stage = "filter" /\ calls = 1
    /\ meas.sensor_type_ = RADAR
    /\ x_pred_[1] > 0 /\ x_pred_[2] > 0 /\ x_pred_[1] # x_pred_[2]

\* C2: a later call with a measurement of a disabled sensor kind runs
\* neither Prediction nor the update and leaves state and covariance as
\* they were.
DisabledSensorIgnored ==
    (LaterCall /\ \/ (meas.sensor_type_ = LASER /\ ~use_laser_)
                  \/ (meas.sensor_type_ = RADAR /\ ~use_radar_)) =>
        /\ steps = << >>
        /\ x_pred_ = x_prior
        /\ P_pred_ = P_prior

\* C3: a later call computes delta_t = (timestamp - previous_timestamp_) /
\* 1000000, runs Prediction once (generation, propagation, reduction, on
\* the state as the call found it), then the one update of the
\* measurement's kind, then stores the timestamp; after every call
\* previous_timestamp_ is the timestamp of the last measurement.
StepsInOrder ==
    /\ (stage = "filter" /\ calls >= 1) => previous_timestamp_ = meas.timestamp_
    /\ LaterCall =>
        /\ delta_t * (1000000 \div Scale) = meas.timestamp_ - prev_timestamp
        /\ meas.sensor_type_ = RADAR => steps = RadarSteps
        /\ meas.sensor_type_ = LASER => steps = LidarSteps
        /\ SubSeq(x_aug, 1, n_x_) = x_prior
        /\ Xsig_aug[1] = x_aug

\* a later call with a radar measurement, later than the one before
RadarCallInOrder ==
    /\ LaterCall
    /\ steps = RadarSteps
    /\ delta_t > 0
    /\ ~is_nan

\* C4 as amended: the weights PredictMeanAndCovariance computes are the
\* doubles nearest to lambda / (lambda + n_aug) and to
\* 1 / (2 (lambda + n_aug)), every time, and their sum is 1 up to the
\* rounding of the 15 quotients.
WeightsSumNearOne ==
    steps # << >> =>
        /\ Len(weights_) = 2 * n_aug_ + 1
        /\ 2 * Fabs(weights_[1] * (lambda_ + n_aug_) - lambda_ * WScale)
              <= lambda_ + n_aug_
        /\ \A i \in 2..Len(weights_) :
              2 * Fabs(weights_[i] * 2 * (lambda_ + n_aug_) - WScale)
                 <= 2 * (lambda_ + n_aug_)
        /\ 2 * Fabs(Sum(weights_) - WScale) <= Len(weights_)

\* C4: the weights are lambda / (lambda + n_aug) and 1 / (2 (lambda +
\* n_aug)), and their sum is exactly 1.
WeightsSumExactlyOne ==
    steps # << >> =>
        /\ Len(weights_) = 2 * n_aug_ + 1
        /\ 2 * Fabs(weights_[1] * (lambda_ + n_aug_) - lambda_ * WScale)
              <= lambda_ + n_aug_
        /\ \A i \in 2..Len(weights_) :
              2 * Fabs(weights_[i] * 2 * (lambda_ + n_aug_) - WScale)
                 <= 2 * (lambda_ + n_aug_)
        /\ Sum(weights_) = WScale

\* the weights after a second Prediction
WeightsRecomputed ==
    /\ stage = "filter" /\ calls >= 3
    /\ steps # << >>
    /\ weights_[1] < 0
    /\ weights_[2] > 0

HeadingWrapped ==
    (stage = "filter" /\ calls >= 1 /\ ~is_nan) =>
        -M_PI < x_pred_[4] /\ x_pred_[4] <= M_PI

\* the propagated sigma points are the augmented ones, cut to the state
SigmaPointsKept ==
    \A k \in 1..n_sig : Xsig_pred_[k] = SubSeq(Xsig_aug[k], 1, n_x_)

\* no heading residual of the covariance sum is changed by the normalization
NoResidualWrapped ==
    \A k \in 1..n_sig : Fabs(Xsig_pred_[k][4] - x_pred_[4]) <= M_PI

\* C7 as amended: Prediction with delta_t = 0 propagates every sigma point
\* to the first five components of its augmented sigma point, in both
\* yaw-rate branches, and leaves the mean as it was, up to rounding; it
\* leaves the covariance as it was, up to rounding, when no heading
\* residual exceeds pi in magnitude.
ZeroStepKeepsUnwrappedCovariance ==
    (stage = "predicted" /\ delta_t = 0) =>
        /\ SigmaPointsKept
        /\ VecNear(x_pred_, x_prior)
        /\ NoResidualWrapped => MatNear(P_pred_, P_prior)

\* C7: Prediction with delta_t = 0 propagates every sigma point to the
\* first five components of its augmented sigma point and leaves the mean
\* and the covariance as they were, for every state and every covariance
\* with a Cholesky factor.
ZeroStepKeepsCovariance ==
    (stage = "predicted" /\ delta_t = 0) =>
        /\ SigmaPointsKept
        /\ VecNear(x_pred_, x_prior)
        /\ MatNear(P_pred_, P_prior)

\* a Prediction with delta_t = 0 whose sigma points take both yaw-rate
\* branches, on a covariance with correlations
ZeroStepBothBranches ==
    /\ stage = "predicted" /\ delta_t = 0
    /\ P_prior = OtherMatrix
    /\ x_prior[3] # 0
    /\ NoResidualWrapped
    /\ \E k \in 1..n_sig : DividesByYawd(Xsig_aug[k][5])
    /\ \E k \in 1..n_sig : ~DividesByYawd(Xsig_aug[k][5])

\* C8: a later call whose measurement is no later than the one before
\* computes a delta_t <= 0, still runs Prediction and the update on it and
\* overwrites previous_timestamp_ with the measurement's timestamp.
OutOfOrderStillProcessed ==
    (LaterCall /\ meas.timestamp_ <= prev_timestamp) =>
        /\ delta_t <= 0
        /\ delta_t * (1000000 \div Scale) = meas.timestamp_ - prev_timestamp
        /\ steps \in {RadarSteps, LidarSteps}
        /\ {"Xsig_aug", "Xsig_pred_", "weights_"} \subseteq assigned
        /\ previous_timestamp_ = meas.timestamp_
        /\ previous_timestamp_ <= prev_timestamp

\* a call with an earlier measurement that moved the stored timestamp back
\* and changed the state
TimestampMovedBack ==
    /\ LaterCall
    /\ previous_timestamp_ < prev_timestamp
    /\ delta_t < 0
    /\ ~is_nan
    /\ x_pred_ # x_prior

\* C9: UpdateRadar does not guard the range: when a predicted sigma point
\* has p_x = 0 and p_y = 0 the update still runs, divides by the zero range
\* and leaves a state that is not finite; PredictSigmaPoints never divides
\* by a yaw rate of magnitude 0.001 or less.
ZeroRangeNotGuarded ==
    /\ zero_range # {} =>
        /\ steps = RadarSteps
        /\ \A k \in zero_range : Xsig_pred_[k][1] = 0 /\ Xsig_pred_[k][2] = 0
        /\ is_nan
    /\ \A d \in yawd_divisors : Fabs(d) * 1000 > Scale

\* the filter initialized at (0, 0), then a radar measurement
ZeroRangeReached ==
    /\ stage = "filter" /\ calls = 2
    /\ x_prior[1] = 0 /\ x_prior[2] = 0
    /\ meas.sensor_type_ = RADAR
    /\ zero_range # {}
    /\ is_nan

\* C10: every field is assigned before it is first read.
AssignedBeforeRead == uninit_reads = {}

=============================================================================
